---- MODULE Spec2Model ----
(***************************************************************************)
(* Model of pyro/infer/abstract_infer.py: the TracePosterior sample store  *)
(* (run / __call__ / diagnostics), the sampler_default_args wrapper, the   *)
(* EmpiricalMarginal projection and the TracePredictive generator.         *)
(*                                                                         *)
(* Python lists are modelled by sequences; a position stored in            *)
(* idxs_by_chain is the 0-based Python position, so element i of a Python  *)
(* list l is l[i + 1] here.  idxs_by_chain itself is a function over       *)
(* 0 .. num_chains - 1.                                                    *)
(***************************************************************************)
EXTENDS Integers, Sequences, FiniteSets, TLC

\* ---------------------------------------------------------------- bounds
MaxItems == 2      \* most items one abstract generation procedure yields
MaxSamples == 2    \* largest num_samples of the TracePredictive instance
MaxChains == 2     \* largest num_chains of the upstream store

\* ------------------------------------------------------------ data types
Stores == {"posterior", "predictive"}

Values == {1, 2}

\* the arguments a caller passes to run
Args == {1, 2}

NoArgs == 0

\* a node of a Trace: a sample site, observed or latent, and its value
Node(o, v) == [is_observed |-> o, value |-> v]

\* a Trace with the single latent site "z"
LatentOnly(v) == [n \in {"z"} |-> Node(FALSE, v)]

\* a Trace with the latent site "z" and the observed site "x"
WithObs(v, u) == [n \in {"z", "x"} |-> IF n = "z" THEN Node(FALSE, v) ELSE Node(TRUE, u)]

\* the traces the abstract generation procedure of the upstream store yields
TracePool == {WithObs(1, 1), LatentOnly(2)}

\* the log-weights the abstract generation procedure yields
Weights == {0, -1}

\* the chain ids it yields to a store of n chains: the valid ones, -1 and n
ChainIds(n) == -1 .. n

\* the triples a generation procedure yields to a store of n chains
Triples(n) == {<<t, w, c>> : t \in TracePool, w \in Weights, c \in ChainIds(n)}

\* what a generation procedure may yield: a bare Trace (a 1-tuple here),
\* a (trace, weight) pair, or a (trace, weight, chain_id) triple
RawItems(n) ==
    {<<t>> : t \in TracePool}
        \cup {<<t, w>> : t \in TracePool, w \in Weights}
        \cup {<<t, w, c>> : t \in TracePool, w \in Weights, c \in 0 .. n - 1}

\* the items the upstream generation procedure yields when the store feeds a
\* TracePredictive instance: equally weighted triples over its n chains
UpstreamItems(n) == {<<WithObs(1, 1), 0, c>> : c \in 0 .. n - 1}

\* --------------------------------------------------------- Trace interface
\* Trace.observation_nodes
observation_nodes(tr) == {n \in DOMAIN tr : tr[n].is_observed}

\* Trace.stochastic_nodes: the latent sample sites, in trace order
stochastic_nodes(tr) ==
    LET lat == {n \in DOMAIN tr : ~tr[n].is_observed}
    IN  (IF "z" \in lat THEN <<"z">> ELSE <<>>) \o (IF "x" \in lat THEN <<"x">> ELSE <<>>)

\* Trace.remove_node on a set of names, applied to a copy of the trace
remove_nodes(tr, names) == [n \in (DOMAIN tr) \ names |-> tr[n]]

\* poutine.trace(poutine.replay(model, model_trace)).get_trace: the sites of
\* model_trace keep their values, the model's remaining site "x" is sampled
\* afresh with value fresh
replay(model_trace, fresh) ==
    [n \in (DOMAIN model_trace) \cup {"x"} |->
        IF n \in DOMAIN model_trace THEN model_trace[n] ELSE Node(FALSE, fresh)]

\* ------------------------------------------------------------ Python lists
\* l[i] raises IndexError unless -len <= i < len
IndexOK(len, i) == -len <= i /\ i < len

\* a list index that always lands on the first element
PyIndex_first(len, i) == 0

\* the position l[i] denotes (negative indices count from the end)
PyIndex(len, i) == IF i < 0 THEN len + i ELSE i

\* ------------------------------------------------------------------ state
VARIABLES
    num_chains,     \* num_chains[s]: fixed at construction
    num_samples,    \* TracePredictive.num_samples
    wrapped,        \* the upstream subclass decorates _traces with sampler_default_args
    exec_traces,    \* exec_traces[s]: list of traces
    log_weights,    \* log_weights[s]: list of log-weights
    idxs_by_chain,  \* idxs_by_chain[s][c]: list of positions
    categorical,    \* categorical[s]: None, or the logits the Categorical was built from
    pc,             \* pc[s]: "idle", or "running" while run(s) consumes its generator
    gen,            \* frame of TracePredictive._traces: position, loop count, arguments
    trail,          \* what the current/last run of the TracePredictive instance did upstream
    yielded,        \* yielded[s]: the items the generation procedure yielded in the current/last run
    run_calls,      \* run_calls[s]: calls of run on s so far: 0, 1, or 2 for two or more
    completed,      \* completed[s]: some run on s has returned
    last,           \* outcome of the last operation that returned to the caller
    threads,        \* threads[t]: frame of the run call thread t makes on the upstream store
    overlapped      \* some thread called run while the run call of another was in progress

vars == <<num_chains, num_samples, wrapped, exec_traces, log_weights, idxs_by_chain,
          categorical, pc, gen, trail, yielded, run_calls, completed, last,
          threads, overlapped>>

config == <<num_chains, num_samples, wrapped>>

\* the state of the threads that call run concurrently
callers == <<threads, overlapped>>

\* the state of the single caller
sequential == <<pc, gen, trail, yielded, run_calls, completed, last>>

Threads == {1, 2}

\* the frame of a run call: where it stands, the index i enumerate pairs with
\* the next item, and the item vals being stored
IdleThread == [pc |-> "idle", i |-> 0, vals |-> <<>>]

NoCategorical == [is_set |-> FALSE, logits |-> <<>>]

\* Categorical(logits=torch.tensor(self.log_weights))
Categorical(logits) == [is_set |-> TRUE, logits |-> logits]

NoTrace == <<>>

NoDiag == <<>>

\* the sites argument of diagnostics: None, or a list of site names
NoSites == [given |-> FALSE, list |-> <<>>]

SiteList(l) == [given |-> TRUE, list |-> l]

\* what an operation hands back to its caller: the error it raised or its
\* result (run: the store ret; __call__: the drawn index g, the selected position
\* pos and the returned trace; diagnostics: the mapping diag; EmpiricalMarginal:
\* the entries marginal)
Outcome(op, s, ok, err, g, pos, tr, diag) ==
    [op |-> op, store |-> s, ok |-> ok, err |-> err, g |-> g, pos |-> pos,
     trace |-> tr, diag |-> diag, sites |-> NoSites, ret |-> "None", marginal |-> <<>>]

\* no operation has returned yet, or one is in progress
NoOutcome == Outcome("none", "posterior", TRUE, "", -1, -1, NoTrace, NoDiag)

\* run, line 118: return self
RunOK(s) == [Outcome("run", s, TRUE, "", -1, -1, NoTrace, NoDiag) EXCEPT !.ret = s]

RunFailed(s, err) == Outcome("run", s, FALSE, err, -1, -1, NoTrace, NoDiag)

IdleGen == [pc |-> "none", k |-> 0, args |-> NoArgs]

NoTrail == [fresh |-> FALSE, runs |-> 0, draws |-> 0, args |-> NoArgs, upstream_args |-> NoArgs]

Idle == \A s \in Stores : pc[s] = "idle"

\* the run on s was called by TracePredictive._traces (line 172)
Nested(s) == s = "posterior" /\ pc["predictive"] = "running"

\* ------------------------------------------------------------ construction
\* TracePosterior.__init__ / _reset: the per-chain index lists
empty_idxs(n) == [c \in 0 .. n - 1 |-> <<>>]

Constructed ==
    /\ wrapped \in BOOLEAN
    /\ num_chains \in {f \in [Stores -> 1 .. MaxChains] : f["predictive"] = 1}
    /\ exec_traces = [s \in Stores |-> <<>>]
    /\ log_weights = [s \in Stores |-> <<>>]
    /\ idxs_by_chain = [s \in Stores |-> empty_idxs(num_chains[s])]
    /\ categorical = [s \in Stores |-> NoCategorical]
    /\ pc = [s \in Stores |-> "idle"]
    /\ gen = IdleGen
    /\ trail = NoTrail
    /\ yielded = [s \in Stores |-> <<>>]
    /\ run_calls = [s \in Stores |-> 0]
    /\ completed = [s \in Stores |-> FALSE]
    /\ last = NoOutcome
    /\ threads = [t \in Threads |-> IdleThread]
    /\ overlapped = FALSE

\* a store of a subclass whose generation procedure yields triples
Init ==
    /\ Constructed
    /\ ~wrapped
    /\ num_samples = 0

\* a store of a subclass whose generation procedure yields bare traces, pairs
\* and triples, decorated with sampler_default_args or not
InitShapes ==
    /\ Constructed
    /\ num_samples = 0

\* a store and a TracePredictive instance over it
InitPredictive ==
    /\ Constructed
    /\ ~wrapped
    /\ num_samples \in 0 .. MaxSamples

\* -------------------------------------------------------------------- run
\* a reset that leaves the collected traces in place
_reset_keeps_traces(s) ==
    /\ log_weights' = [log_weights EXCEPT ![s] = <<>>]
    /\ UNCHANGED exec_traces
    /\ idxs_by_chain' = [idxs_by_chain EXCEPT ![s] = empty_idxs(num_chains[s])]
    /\ categorical' = [categorical EXCEPT ![s] = NoCategorical]

\* TracePosterior._reset
_reset(s) ==
    /\ log_weights' = [log_weights EXCEPT ![s] = <<>>]
    /\ exec_traces' = [exec_traces EXCEPT ![s] = <<>>]
    /\ idxs_by_chain' = [idxs_by_chain EXCEPT ![s] = empty_idxs(num_chains[s])]
    /\ categorical' = [categorical EXCEPT ![s] = NoCategorical]

\* sampler_default_args: the value the wrapped generator yields for val
sampler_default_args(val) ==
    IF Len(val) = 1 THEN <<val[1], 1, 0>>
    ELSE IF Len(val) = 2 THEN <<val[1], val[2], 0>>
    ELSE val

\* what run receives from self._traces for the item val of the procedure
Received(s, val) ==
    IF s = "posterior" /\ wrapped THEN sampler_default_args(val) ELSE val

\* an exception leaves run(s): it propagates through TracePredictive._traces
\* and the run that consumes it when run(s) is the nested upstream run
Raise(s, err) ==
    /\ pc' = [t \in Stores |-> "idle"]
    /\ gen' = IdleGen
    /\ last' = RunFailed(IF Nested(s) THEN "predictive" ELSE s, err)

\* one more call of run
called(n) == IF n < 2 THEN n + 1 ELSE 2

\* run, line 110: the caller invokes run(a) on an idle store
Run(s, a) ==
    /\ Idle
    /\ _reset(s)
    /\ pc' = [pc EXCEPT ![s] = "running"]
    /\ gen' = IF s = "predictive" THEN [pc |-> "start", k |-> 0, args |-> a] ELSE gen
    /\ trail' = IF s = "predictive"
                THEN [NoTrail EXCEPT !.fresh = run_calls["posterior"] = 0, !.args = a]
                ELSE trail
    /\ yielded' = [yielded EXCEPT ![s] = <<>>]
    /\ run_calls' = [run_calls EXCEPT ![s] = called(@)]
    /\ last' = NoOutcome
    /\ UNCHANGED <<config, callers, completed>>

\* run, line 112: the index enumerate pairs with the next item
enumerate_index(seen) == Len(seen)

\* run, lines 112-116: the loop body for the i-th item, val as the generation
\* procedure yields it and vals as run receives it
Ingest(s, val) ==
    LET i == enumerate_index(yielded[s])
        n == num_chains[s]
        vals == Received(s, val)
    IN  /\ yielded' = [yielded EXCEPT ![s] = Append(@, val)]
        /\ IF Len(vals) # 3
           THEN \* tr, logit, chain_id = vals fails
                /\ Raise(s, "unpack")
                /\ UNCHANGED <<exec_traces, log_weights, idxs_by_chain>>
           ELSE /\ exec_traces' = [exec_traces EXCEPT ![s] = Append(@, vals[1])]
                /\ log_weights' = [log_weights EXCEPT ![s] = Append(@, vals[2])]
                /\ IF IndexOK(n, vals[3])
                   THEN /\ idxs_by_chain' =
                              [idxs_by_chain EXCEPT ![s][PyIndex(n, vals[3])] = Append(@, i)]
                        /\ UNCHANGED <<pc, last>>
                        /\ gen' = IF s = "predictive" THEN [gen EXCEPT !.k = @ + 1] ELSE gen
                   ELSE /\ Raise(s, "IndexError")
                        /\ UNCHANGED idxs_by_chain
        /\ UNCHANGED <<config, callers, categorical, run_calls, completed>>

\* the abstract generation procedure of the upstream store yields an item
RunItem(s, items) ==
    /\ s = "posterior"
    /\ pc[s] = "running"
    /\ Len(yielded[s]) < MaxItems
    /\ \E val \in items : Ingest(s, val)
    /\ UNCHANGED trail

\* the abstract generation procedure of the upstream store raises
RunRaise(s) ==
    /\ s = "posterior"
    /\ pc[s] = "running"
    /\ Raise(s, "generator")
    /\ UNCHANGED <<config, callers, exec_traces, log_weights, idxs_by_chain, categorical,
                   trail, yielded, run_calls, completed>>

\* a loop that runs once more than range(self.num_samples)
more_samples_inclusive(k, n) == k <= n

\* _traces, line 173: another iteration of range(self.num_samples) is due
more_samples(k, n) == k < n

\* the generator consumed by run(s) is exhausted
Exhausted(s) ==
    /\ pc[s] = "running"
    /\ s = "predictive" => gen.pc = "loop" /\ ~more_samples(gen.k, num_samples)

\* the caller of the run on s gets its result: the caller's own frame for a
\* top-level run, the frame of TracePredictive._traces for the nested one
Return(s) ==
    IF Nested(s)
    THEN /\ pc' = [pc EXCEPT ![s] = "idle"]
         /\ gen' = [gen EXCEPT !.pc = "loop"]
         /\ UNCHANGED last
    ELSE /\ pc' = [pc EXCEPT ![s] = "idle"]
         /\ gen' = IdleGen
         /\ last' = RunOK(s)

\* run, lines 117-118: build the Categorical over the log-weights, return self
RunReturn(s) ==
    /\ Exhausted(s)
    /\ log_weights[s] # <<>>
    /\ categorical' = [categorical EXCEPT ![s] = Categorical(log_weights[s])]
    /\ completed' = [completed EXCEPT ![s] = TRUE]
    /\ Return(s)
    /\ UNCHANGED <<config, callers, exec_traces, log_weights, idxs_by_chain, trail, yielded, run_calls>>

\* run, lines 117-118 when nothing was yielded: torch builds a Categorical
\* over an empty tensor, or rejects the empty reduction, depending on the build
RunReturnEmpty(s) ==
    /\ Exhausted(s)
    /\ log_weights[s] = <<>>
    /\ \/ /\ categorical' = [categorical EXCEPT ![s] = Categorical(log_weights[s])]
          /\ completed' = [completed EXCEPT ![s] = TRUE]
          /\ Return(s)
       \/ /\ Raise(s, "Categorical")
          /\ UNCHANGED <<categorical, completed>>
    /\ UNCHANGED <<config, callers, exec_traces, log_weights, idxs_by_chain, trail, yielded, run_calls>>

\* --------------------------------------------------------------- __call__
\* a decoding that attributes every drawn index to the first chain
chain_of_first(random_idx, n) == 0

\* __call__, line 95: the chain the drawn index is attributed to
chain_of(random_idx, n) == random_idx % n

\* __call__, line 95: the position within that chain
within_of(random_idx, n) == random_idx \div n

\* a copy that keeps its observation nodes
prune_nothing(trace) == trace

\* __call__, lines 98-99: remove every observation node of the copy
prune(trace) == remove_nodes(trace, observation_nodes(trace))

\* the indices self._categorical.sample() can return
Samples(s) == 0 .. Len(categorical[s].logits) - 1

\* __call__ for the drawn index random_idx
call(s, random_idx) ==
    LET n == num_chains[s]
        chain_idx == chain_of(random_idx, n)
        within == within_of(random_idx, n)
    IN  IF ~IndexOK(Len(idxs_by_chain[s][chain_idx]), within)
        THEN Outcome("draw", s, FALSE, "IndexError", random_idx, -1, NoTrace, NoDiag)
        ELSE LET sample_idx == idxs_by_chain[s][chain_idx][within + 1]
             IN  Outcome("draw", s, TRUE, "", random_idx, sample_idx,
                         prune(exec_traces[s][sample_idx + 1]), NoDiag)

\* a draw that falls back on the stored traces when no Categorical is set
Calls_over_traces(s) ==
    IF Len(exec_traces[s]) = 0
    THEN {Outcome("draw", s, FALSE, "sample", -1, -1, NoTrace, NoDiag)}
    ELSE {call(s, g) : g \in 0 .. Len(exec_traces[s]) - 1}

\* the outcomes of one __call__ on s
Calls(s) ==
    IF ~categorical[s].is_set
    THEN {Outcome("draw", s, FALSE, "AttributeError", -1, -1, NoTrace, NoDiag)}
    ELSE IF Samples(s) = {}
    THEN {Outcome("draw", s, FALSE, "sample", -1, -1, NoTrace, NoDiag)}
    ELSE {call(s, g) : g \in Samples(s)}

\* a call that removes the observation nodes from the stored trace itself
traces_after_call_in_place(s, out) ==
    IF out.ok THEN [exec_traces[s] EXCEPT ![out.pos + 1] = out.trace] ELSE exec_traces[s]

\* __call__, lines 97-99: the nodes are removed from a copy of the selected
\* trace, so the stored traces are what they were
traces_after_call(s, out) == exec_traces[s]

\* the caller draws from s
Draw(s) ==
    /\ Idle
    /\ \E out \in Calls(s) :
          /\ last' = out
          /\ exec_traces' = [exec_traces EXCEPT ![s] = traces_after_call(s, out)]
    /\ UNCHANGED <<config, callers, log_weights, idxs_by_chain, categorical, pc, gen,
                   trail, yielded, run_calls, completed>>

\* ------------------------------------------------- TracePredictive._traces
\* _traces, line 172: the arguments handed on to the upstream run
upstream_run_args(a) == a

\* _traces, lines 171-172: the upstream store holds no traces, so run it
TracesRunUpstream ==
    /\ pc["predictive"] = "running"
    /\ gen.pc = "start"
    /\ exec_traces["posterior"] = <<>>
    /\ _reset("posterior")
    /\ pc' = [pc EXCEPT !["posterior"] = "running"]
    /\ gen' = [gen EXCEPT !.pc = "wait"]
    /\ trail' = [trail EXCEPT !.runs = @ + 1, !.upstream_args = upstream_run_args(gen.args)]
    /\ yielded' = [yielded EXCEPT !["posterior"] = <<>>]
    /\ run_calls' = [run_calls EXCEPT !["posterior"] = called(@)]
    /\ UNCHANGED <<config, callers, completed, last>>

\* _traces, line 171: the upstream store holds traces, so go on to the loop
TracesSkipUpstream ==
    /\ pc["predictive"] = "running"
    /\ gen.pc = "start"
    /\ exec_traces["posterior"] # <<>>
    /\ gen' = [gen EXCEPT !.pc = "loop"]
    /\ UNCHANGED <<config, callers, exec_traces, log_weights, idxs_by_chain, categorical, pc,
                   trail, yielded, run_calls, completed, last>>

\* _traces, line 176: the item yielded for the replayed trace
predictive_item(replayed_trace) == <<replayed_trace, 0, 0>>

\* _traces, lines 173-176, and the loop body of the run that consumes it:
\* draw from the upstream store, replay the model, yield, store
TracesYield ==
    /\ pc["predictive"] = "running"
    /\ gen.pc = "loop"
    /\ more_samples(gen.k, num_samples)
    /\ trail' = [trail EXCEPT !.draws = @ + 1]
    /\ \E out \in Calls("posterior") :
          IF out.ok
          THEN \E fresh \in Values :
                  Ingest("predictive", predictive_item(replay(out.trace, fresh)))
          ELSE /\ Raise("predictive", out.err)
               /\ UNCHANGED <<config, callers, exec_traces, log_weights, idxs_by_chain, categorical,
                              yielded, run_calls, completed>>

\* ------------------------------------------------------------ diagnostics
Min(a, b) == IF a < b THEN a ELSE b

\* entries that all carry the log-weight of the first stored trace
populate_traces_first_weight(s, site) ==
    [i \in 1 .. Min(Len(exec_traces[s]), Len(log_weights[s])) |->
        <<exec_traces[s][i][site].value, log_weights[s][1]>>]

\* EmpiricalMarginal._populate_traces for a single site name: one
\* (value, log_weight) entry per stored trace, in stored order
populate_traces(s, site) ==
    [i \in 1 .. Min(Len(exec_traces[s]), Len(log_weights[s])) |->
        <<exec_traces[s][i][site].value, log_weights[s][i]>>]

\* tr.nodes[site] raises KeyError for some stored trace
MissingSite(s, site) ==
    \E i \in 1 .. Min(Len(exec_traces[s]), Len(log_weights[s])) :
        site \notin DOMAIN exec_traces[s][i]

\* a weight check that lets every marginal through
differently_weighted_never(marginal) == FALSE

\* the site names a caller asks a marginal for
SiteNames == {"z", "x"}

\* EmpiricalMarginal(trace_posterior, site), lines 30-36: the marginal over
\* one site name, or the KeyError of line 41
EmpiricalMarginal(s, site) ==
    IF MissingSite(s, site)
    THEN [Outcome("marginal", s, FALSE, "KeyError", -1, -1, NoTrace, NoDiag)
             EXCEPT !.sites = SiteList(<<site>>)]
    ELSE [Outcome("marginal", s, TRUE, "", -1, -1, NoTrace, NoDiag)
             EXCEPT !.sites = SiteList(<<site>>), !.marginal = populate_traces(s, site)]

\* the caller builds the marginal of one site over s
Marginal(s) ==
    /\ Idle
    /\ \E site \in SiteNames : last' = EmpiricalMarginal(s, site)
    /\ UNCHANGED <<config, callers, exec_traces, log_weights, idxs_by_chain, categorical, pc, gen,
                   trail, yielded, run_calls, completed>>

\* diagnostics, line 137: weights.max() != weights.min()
differently_weighted(marginal) ==
    \E i, j \in DOMAIN marginal : marginal[i][2] # marginal[j][2]

\* rows cut out of the marginal in stored order, chain after chain, as if the
\* items had been yielded in blocks
chain_samples_in_blocks(s, marginal) ==
    [c \in 0 .. num_chains[s] - 1 |->
        [j \in 1 .. Len(idxs_by_chain[s][c]) |->
            marginal[c * Len(idxs_by_chain[s][c]) + j][1]]]

\* diagnostics, lines 139-142: row c holds the marginal's values at the
\* positions idxs_by_chain[c]
chain_samples(s, marginal) ==
    [c \in 0 .. num_chains[s] - 1 |->
        [j \in 1 .. Len(idxs_by_chain[s][c]) |-> marginal[idxs_by_chain[s][c][j] + 1][1]]]

\* diagnostics, lines 136-147 for one site: the error raised, or the
\* chain-major array handed to stats.effective_sample_size / split_gelman_rubin
site_diagnostics(s, site) ==
    IF MissingSite(s, site) THEN [err |-> "KeyError", rows |-> <<>>]
    ELSE LET marginal == populate_traces(s, site)
         IN  IF Len(marginal) = 0 THEN [err |-> "empty", rows |-> <<>>]
             ELSE IF differently_weighted(marginal) THEN [err |-> "ValueError", rows |-> <<>>]
             ELSE IF \E c \in 0 .. num_chains[s] - 1 :
                         \E j \in 1 .. Len(idxs_by_chain[s][c]) :
                             idxs_by_chain[s][c][j] >= Len(marginal)
             THEN [err |-> "IndexError", rows |-> <<>>]
             ELSE IF \E c, d \in 0 .. num_chains[s] - 1 :
                         Len(idxs_by_chain[s][c]) # Len(idxs_by_chain[s][d])
             THEN [err |-> "stack", rows |-> <<>>]
             ELSE [err |-> "", rows |-> chain_samples(s, marginal)]

\* pyro.ops.stats: the two statistics of a chain-major array; each is a
\* function of the array alone and raises nothing
effective_sample_size(rows) == [stat |-> "effective_sample_size", of |-> rows]

split_gelman_rubin(rows) == [stat |-> "split_gelman_rubin", of |-> rows]

\* diagnostics, lines 144-147: the entry of one site
site_entry(rows) ==
    [n_eff |-> effective_sample_size(rows), r_hat |-> split_gelman_rubin(rows)]

SiteArgs ==
    {NoSites, SiteList(<<>>), SiteList(<<"z">>), SiteList(<<"x">>), SiteList(<<"z", "x">>)}

Range(l) == {l[i] : i \in DOMAIN l}

\* an early return that no chain count takes
single_chain_never(n) == n = 0

\* diagnostics, line 133: the single-chain early return
single_chain(n) == n = 1

\* diagnostics, line 130: the assertion guarding the inference of the sites
has_traces(traces) == Len(traces) > 0

\* diagnostics, lines 135-148: the loop over the sites and the result
diagnose(s, sites) ==
    LET bad == {k \in DOMAIN sites : site_diagnostics(s, sites[k]).err # ""}
    IN  IF bad # {}
        THEN LET k == CHOOSE m \in bad : \A o \in bad : m <= o
             IN  Outcome("diagnostics", s, FALSE, site_diagnostics(s, sites[k]).err,
                         -1, -1, NoTrace, NoDiag)
        ELSE Outcome("diagnostics", s, TRUE, "", -1, -1, NoTrace,
                     [site \in Range(sites) |-> site_entry(site_diagnostics(s, site).rows)])

\* diagnostics with the single-chain return placed before the assertion
diagnostics_return_first(s, arg) ==
    IF single_chain(num_chains[s])
    THEN Outcome("diagnostics", s, TRUE, "", -1, -1, NoTrace, NoDiag)
    ELSE IF ~arg.given /\ ~has_traces(exec_traces[s])
    THEN Outcome("diagnostics", s, FALSE, "AssertionError", -1, -1, NoTrace, NoDiag)
    ELSE diagnose(s, IF arg.given THEN arg.list ELSE stochastic_nodes(exec_traces[s][1]))

\* diagnostics(sites)
diagnostics(s, arg) ==
    IF ~arg.given /\ ~has_traces(exec_traces[s])
    THEN Outcome("diagnostics", s, FALSE, "AssertionError", -1, -1, NoTrace, NoDiag)
    ELSE LET sites == IF arg.given THEN arg.list ELSE stochastic_nodes(exec_traces[s][1])
         IN  IF single_chain(num_chains[s])
             THEN Outcome("diagnostics", s, TRUE, "", -1, -1, NoTrace, NoDiag)
             ELSE diagnose(s, sites)

\* the caller asks s for diagnostics
Diagnostics(s) ==
    /\ Idle
    /\ \E arg \in SiteArgs : last' = [diagnostics(s, arg) EXCEPT !.sites = arg]
    /\ UNCHANGED <<config, callers, exec_traces, log_weights, idxs_by_chain, categorical, pc, gen,
                   trail, yielded, run_calls, completed>>

\* ------------------------------------------- run called from two threads
\* the items the generation procedure yields to the run call of thread t:
\* the trace tells the call it was yielded to
ThreadItems(n, t) == {<<LatentOnly(t), 0, c>> : c \in 0 .. n - 1}

\* the run call of thread t is between its reset and its return
Active(t) == threads[t].pc \in {"loop", "weights", "index"}

\* run, line 110: thread t calls run on the upstream store
CallReset(t) ==
    /\ threads[t].pc = "idle"
    /\ _reset("posterior")
    /\ threads' = [threads EXCEPT ![t].pc = "loop"]
    /\ overlapped' = (overlapped \/ \E u \in Threads \ {t} : Active(u))
    /\ UNCHANGED <<config, sequential>>

\* run, lines 112-114: the generator of t yields its next item and the trace
\* is appended
CallAppendTrace(t) ==
    /\ threads[t].pc = "loop"
    /\ threads[t].i < MaxItems
    /\ \E vals \in ThreadItems(num_chains["posterior"], t) :
          /\ exec_traces' = [exec_traces EXCEPT !["posterior"] = Append(@, vals[1])]
          /\ threads' = [threads EXCEPT ![t].pc = "weights", ![t].vals = vals]
    /\ UNCHANGED <<config, sequential, log_weights, idxs_by_chain, categorical, overlapped>>

\* run, line 115: the log-weight is appended
CallAppendWeight(t) ==
    /\ threads[t].pc = "weights"
    /\ log_weights' = [log_weights EXCEPT !["posterior"] = Append(@, threads[t].vals[2])]
    /\ threads' = [threads EXCEPT ![t].pc = "index"]
    /\ UNCHANGED <<config, sequential, exec_traces, idxs_by_chain, categorical, overlapped>>

\* an enumerate that pairs every item with the same index
enumerate_stuck(i) == i

\* run, line 112: the index enumerate pairs with the item after the i-th
enumerate_next(i) == i + 1

\* run, line 116: the call's own index i is appended to the list of the chain
CallAppendIndex(t) ==
    /\ threads[t].pc = "index"
    /\ idxs_by_chain' =
          [idxs_by_chain EXCEPT !["posterior"][PyIndex(num_chains["posterior"],
                                                       threads[t].vals[3])] =
              Append(@, threads[t].i)]
    /\ threads' = [threads EXCEPT ![t] =
                      [pc |-> "loop", i |-> enumerate_next(threads[t].i), vals |-> <<>>]]
    /\ UNCHANGED <<config, sequential, exec_traces, log_weights, categorical, overlapped>>

\* run, lines 117-118: the generator of t is exhausted, the Categorical is
\* built over the log-weights the store holds now, and the call returns (or,
\* over no log-weights, raises on a build that rejects the empty reduction)
CallReturn(t) ==
    /\ threads[t].pc = "loop"
    /\ \/ /\ categorical' =
                [categorical EXCEPT !["posterior"] = Categorical(log_weights["posterior"])]
          /\ threads' = [threads EXCEPT ![t].pc = "done"]
       \/ /\ log_weights["posterior"] = <<>>
          /\ threads' = [threads EXCEPT ![t].pc = "failed"]
          /\ UNCHANGED categorical
    /\ UNCHANGED <<config, sequential, exec_traces, log_weights, idxs_by_chain, overlapped>>

\* ---------------------------------------------------------- specifications
\* a store with an abstract generation procedure, used on its own
Next ==
    \/ \E a \in Args : Run("posterior", a)
    \/ RunItem("posterior", Triples(num_chains["posterior"]))
    \/ RunRaise("posterior")
    \/ RunReturn("posterior")
    \/ RunReturnEmpty("posterior")
    \/ Draw("posterior")
    \/ Diagnostics("posterior")

Spec == Init /\ [][Next]_vars

\* a store fed bare traces, pairs and triples
NextShapes ==
    \/ \E a \in Args : Run("posterior", a)
    \/ RunItem("posterior", RawItems(num_chains["posterior"]))
    \/ RunRaise("posterior")
    \/ RunReturn("posterior")
    \/ RunReturnEmpty("posterior")

SpecShapes == InitShapes /\ [][NextShapes]_vars

\* a TracePredictive instance over an upstream store
NextPredictive ==
    \/ \E s \in Stores : \E a \in Args : Run(s, a)
    \/ RunItem("posterior", UpstreamItems(num_chains["posterior"]))
    \/ RunRaise("posterior")
    \/ \E s \in Stores : RunReturn(s)
    \/ \E s \in Stores : RunReturnEmpty(s)
    \/ \E s \in Stores : Draw(s)
    \/ TracesRunUpstream
    \/ TracesSkipUpstream
    \/ TracesYield

SpecPredictive == InitPredictive /\ [][NextPredictive]_vars

\* a store whose caller builds marginals over it
NextMarginal ==
    \/ \E a \in Args : Run("posterior", a)
    \/ RunItem("posterior", Triples(num_chains["posterior"]))
    \/ RunRaise("posterior")
    \/ RunReturn("posterior")
    \/ RunReturnEmpty("posterior")
    \/ Marginal("posterior")

SpecMarginal == Init /\ [][NextMarginal]_vars

\* two threads that each call run once on the same store
NextConcurrent ==
    \/ \E t \in Threads : CallReset(t)
    \/ \E t \in Threads : CallAppendTrace(t)
    \/ \E t \in Threads : CallAppendWeight(t)
    \/ \E t \in Threads : CallAppendIndex(t)
    \/ \E t \in Threads : CallReturn(t)

SpecConcurrent == Init /\ [][NextConcurrent]_vars

\* ================================================================== claims
Chains(s) == 0 .. num_chains[s] - 1

\* the store is Ready: its last run has returned and nothing was reset since
Ready(s) == pc[s] = "idle" /\ categorical[s].is_set

\* the chain id run received with the i-th item of the current/last run
ChainId(s, i) == Received(s, yielded[s][i])[3]

\* every item of the current/last run carried a chain id in [0, num_chains)
ValidChainIds(s) ==
    \A i \in 1 .. Len(yielded[s]) :
        /\ Len(Received(s, yielded[s][i])) = 3
        /\ ChainId(s, i) \in Chains(s)

RECURSIVE SumLens(_, _)
SumLens(f, n) == IF n = 0 THEN 0 ELSE Len(f[n - 1]) + SumLens(f, n - 1)

Increasing(l) == \A j, k \in DOMAIN l : j < k => l[j] < l[k]

\* the places of idxs_by_chain[s] that hold the position p
Places(s, p) ==
    {ck \in Chains(s) \X (1 .. Len(exec_traces[s])) :
        ck[2] <= Len(idxs_by_chain[s][ck[1]]) /\ idxs_by_chain[s][ck[1]][ck[2]] = p}

\* C1: after a run that returns, when every yielded chain id lies in
\* [0, num_chains), the lists idxs_by_chain[0 .. num_chains-1] partition the
\* positions 0 .. len(exec_traces)-1: their lengths sum to the number of
\* yielded items, every position is in exactly one list, and idxs_by_chain[c]
\* holds, in increasing order, exactly the positions whose chain id is c.
C1_ChainIndexPartition ==
    \A s \in Stores :
        Ready(s) /\ ValidChainIds(s) =>
            /\ SumLens(idxs_by_chain[s], num_chains[s]) = Len(yielded[s])
            /\ Len(exec_traces[s]) = Len(yielded[s])
            /\ \A p \in 0 .. Len(exec_traces[s]) - 1 : Cardinality(Places(s, p)) = 1
            /\ \A c \in Chains(s) :
                  /\ Increasing(idxs_by_chain[s][c])
                  /\ Range(idxs_by_chain[s][c]) =
                        {p \in 0 .. Len(exec_traces[s]) - 1 : ChainId(s, p + 1) = c}

\* a two-chain store that is Ready with one position in each chain
C1_Witness ==
    /\ Ready("posterior")
    /\ ValidChainIds("posterior")
    /\ num_chains["posterior"] = 2
    /\ idxs_by_chain["posterior"][0] = <<1>>
    /\ idxs_by_chain["posterior"][1] = <<0>>

\* the triple run stored for the i-th item of the current/last run
Stored(s, i) == Received(s, yielded[s][i])

\* C2: run is re-entrant and discards prior state: once a run has returned,
\* exec_traces and log_weights hold exactly the items yielded during that
\* call, in yield order, idxs_by_chain refers only to those items, the
\* Categorical is built over exactly that list of log-weights, and run
\* returns the store itself.
C2_RunDiscardsPriorState ==
    \A s \in Stores :
        Ready(s) =>
            /\ Len(exec_traces[s]) = Len(yielded[s])
            /\ Len(log_weights[s]) = Len(yielded[s])
            /\ \A i \in 1 .. Len(yielded[s]) :
                  /\ exec_traces[s][i] = Stored(s, i)[1]
                  /\ log_weights[s][i] = Stored(s, i)[2]
            /\ \A c \in Chains(s) :
                  Range(idxs_by_chain[s][c]) \subseteq 0 .. Len(yielded[s]) - 1
            /\ categorical[s].logits = log_weights[s]
            /\ Len(categorical[s].logits) = Len(exec_traces[s])
            /\ (last.op = "run" /\ last.ok => last.ret = last.store /\ Ready(last.store))

\* a second (or later) run on the store has returned with a single item
C2_Witness ==
    /\ last = RunOK("posterior")
    /\ run_calls["posterior"] = 2
    /\ completed["posterior"]
    /\ Len(exec_traces["posterior"]) = 1

\* the generation procedure yielded its chains in round-robin order
RoundRobin(s) ==
    \A i \in 1 .. Len(yielded[s]) :
        /\ Len(Stored(s, i)) = 3
        /\ Stored(s, i)[3] = (i - 1) % num_chains[s]

\* the trace tr without its observation nodes
WithoutObservations(tr) == [n \in {m \in DOMAIN tr : ~tr[m].is_observed} |-> tr[n]]

\* C3: when the chains were yielded round-robin (item i has chain id
\* i mod num_chains), every index g the Categorical can return decodes to
\* chain g mod num_chains, position g div num_chains within it, and selects
\* the stored position idxs_by_chain[chain][within] = g: the draw returns the
\* pruned copy of the trace whose log-weight the Categorical holds at g.
C3_RoundRobinDecoding ==
    \A s \in Stores :
        Ready(s) /\ RoundRobin(s) =>
            /\ \A g \in Samples(s) :
                  /\ g \div num_chains[s] < Len(idxs_by_chain[s][g % num_chains[s]])
                  /\ idxs_by_chain[s][g % num_chains[s]][(g \div num_chains[s]) + 1] = g
                  /\ categorical[s].logits[g + 1] = log_weights[s][g + 1]
            /\ (last.op = "draw" /\ last.store = s =>
                  /\ last.g \in Samples(s) => last.ok
                  /\ last.ok => /\ last.pos = last.g
                                /\ last.trace = WithoutObservations(exec_traces[s][last.g + 1]))

\* a draw of the index 1 from a two-chain store filled round-robin
C3_Witness ==
    /\ last.op = "draw"
    /\ last.store = "posterior"
    /\ last.ok
    /\ last.g = 1
    /\ num_chains["posterior"] = 2
    /\ RoundRobin("posterior")
    /\ Len(exec_traces["posterior"]) = 2

\* C4: the trace a draw returns contains no observation node and contains
\* exactly the other nodes of the selected stored trace, with their stored
\* values.
C4_DrawPrunesObservations ==
    last.op = "draw" /\ last.ok =>
        LET stored == exec_traces[last.store][last.pos + 1]
        IN  /\ \A n \in DOMAIN last.trace : ~last.trace[n].is_observed
            /\ DOMAIN last.trace = {n \in DOMAIN stored : ~stored[n].is_observed}
            /\ \A n \in DOMAIN last.trace : last.trace[n] = stored[n]

\* a draw that selected a stored trace with an observation node
C4_Witness ==
    /\ last.op = "draw"
    /\ last.ok
    /\ \E n \in DOMAIN exec_traces[last.store][last.pos + 1] :
          exec_traces[last.store][last.pos + 1][n].is_observed

\* C5: a draw on a store that was never run fails and returns no trace, for
\* any num_chains; a draw succeeds only after a run has returned.
C5_DrawRequiresRun ==
    last.op = "draw" =>
        /\ run_calls[last.store] = 0 => ~last.ok /\ last.trace = NoTrace /\ last.pos = -1
        /\ last.ok => completed[last.store] /\ Ready(last.store)

\* a failed draw on a two-chain store that was never run
C5_Witness ==
    /\ last.op = "draw"
    /\ ~last.ok
    /\ run_calls[last.store] = 0
    /\ num_chains[last.store] = 2

\* the store holds no samples (never run, or its last run stored nothing)
Empty(s) == Len(exec_traces[s]) = 0

\* the empty mapping
NoSiteDiagnostics == [site \in {} |-> <<>>]

\* C6 as stated: diagnostics before any run, or on a store holding no
\* samples, fails with no result for every num_chains and every sites
\* argument (omitted, an empty list, an explicit list of names).
C6_DiagnosticsFailsOnEmptyStore ==
    last.op = "diagnostics" /\ Empty(last.store) => ~last.ok

\* C6 as amended: on a store holding no samples diagnostics fails with no
\* result when sites is omitted (every num_chains, 1 included) and when
\* sites is a non-empty list and num_chains > 1; with an explicit list and
\* num_chains = 1, or with an empty list, it returns the empty mapping.
C6_DiagnosticsOnEmptyStore ==
    last.op = "diagnostics" /\ Empty(last.store) =>
        /\ last.ok <=> /\ last.sites.given
                       /\ num_chains[last.store] = 1 \/ last.sites.list = <<>>
        /\ last.diag = NoSiteDiagnostics

\* diagnostics() with sites omitted has failed on a never-run single-chain store
C6_Witness ==
    /\ last.op = "diagnostics"
    /\ ~last.ok
    /\ ~last.sites.given
    /\ run_calls[last.store] = 0
    /\ num_chains[last.store] = 1

\* the positions run recorded for the i-th item of the current/last run
Recorded(s, i) == \E c \in Chains(s) : (i - 1) \in Range(idxs_by_chain[s][c])

\* C7: run fails as soon as an item whose chain id is outside
\* [0, num_chains) is yielded, negative ids included; no such item is ever
\* recorded in an idxs_by_chain list.
C7_InvalidChainIdRejected ==
    \A s \in Stores :
        \A i \in 1 .. Len(yielded[s]) :
            Len(Stored(s, i)) = 3 /\ Stored(s, i)[3] \notin Chains(s) =>
                /\ ~Recorded(s, i)
                /\ i = Len(yielded[s])
                /\ pc[s] = "idle"
                /\ ~categorical[s].is_set

\* C8: run normalizes every yielded item into a (trace, log_weight,
\* chain_id) triple before storing it: a bare trace is stored with weight 1
\* and chain 0, a pair with chain 0, a triple unchanged, whatever mix of the
\* three shapes the generation procedure yields.
C8_RunNormalizesItems ==
    \A s \in Stores :
        \A i \in 1 .. Len(yielded[s]) :
            LET item == yielded[s][i]
                triple == IF Len(item) = 1 THEN <<item[1], 1, 0>>
                          ELSE IF Len(item) = 2 THEN <<item[1], item[2], 0>>
                          ELSE item
            IN  triple[3] \in Chains(s) =>
                    /\ i <= Len(exec_traces[s])
                    /\ exec_traces[s][i] = triple[1]
                    /\ log_weights[s][i] = triple[2]
                    /\ (i - 1) \in Range(idxs_by_chain[s][triple[3]])

\* C9: a run of a TracePredictive instance with num_samples = N over an
\* upstream store that was never run calls the upstream run exactly once,
\* with the arguments of its own run and before any draw, and when it returns
\* it has drawn from the upstream store exactly N times and yielded exactly N
\* items, each with log-weight 0 and chain id 0: its own store holds exactly
\* N samples, all listed in idxs_by_chain[0].
C9_PredictiveRunOverFreshUpstream ==
    trail.fresh =>
        /\ trail.runs <= 1
        /\ trail.draws <= num_samples
        /\ gen.pc = "start" => trail.runs = 0 /\ trail.draws = 0
        /\ gen.pc = "wait" => trail.runs = 1 /\ trail.draws = 0 /\ pc["posterior"] = "running"
        /\ gen.pc = "loop" \/ trail.draws > 0 =>
              trail.runs = 1 /\ trail.upstream_args = trail.args
        /\ \A i \in 1 .. Len(yielded["predictive"]) :
              /\ Len(yielded["predictive"][i]) = 3
              /\ yielded["predictive"][i][2] = 0
              /\ yielded["predictive"][i][3] = 0
        /\ Ready("predictive") =>
              /\ trail.runs = 1
              /\ trail.upstream_args = trail.args
              /\ trail.draws = num_samples
              /\ Len(yielded["predictive"]) = num_samples
              /\ Len(exec_traces["predictive"]) = num_samples
              /\ log_weights["predictive"] = [i \in 1 .. num_samples |-> 0]
              /\ idxs_by_chain["predictive"][0] = [i \in 1 .. num_samples |-> i - 1]

\* a run with num_samples = 2 over a never-run upstream store has returned
C9_Witness ==
    /\ last = RunOK("predictive")
    /\ trail.fresh
    /\ trail.runs = 1
    /\ num_samples = 2
    /\ Len(exec_traces["predictive"]) = 2

\* C10 as stated: on a store with num_chains = 1, diagnostics() with sites
\* omitted returns an empty mapping whatever the store holds, a store
\* holding no samples included.
C10_SingleChainAlwaysEmptyMapping ==
    last.op = "diagnostics" /\ ~last.sites.given /\ num_chains[last.store] = 1 =>
        last.ok /\ last.diag = NoSiteDiagnostics

\* C10 as amended: on a store with num_chains = 1 that holds at least one
\* sample, diagnostics() with sites omitted returns an empty mapping
\* whatever the samples are (differently weighted ones included); on a store
\* holding no samples it fails.
C10_SingleChainEmptyMapping ==
    last.op = "diagnostics" /\ ~last.sites.given /\ num_chains[last.store] = 1 =>
        /\ last.ok <=> ~Empty(last.store)
        /\ last.diag = NoSiteDiagnostics

\* diagnostics() has returned on a single-chain store of two differently
\* weighted samples
C10_Witness ==
    /\ last.op = "diagnostics"
    /\ last.ok
    /\ ~last.sites.given
    /\ num_chains[last.store] = 1
    /\ Len(log_weights[last.store]) = 2
    /\ log_weights[last.store][1] # log_weights[last.store][2]

\* ------------------------------------------------------------------- C11
\* the log-weights stored in s are not all equal
NonUniform(s) == \E i, j \in DOMAIN log_weights[s] : log_weights[s][i] # log_weights[s][j]

\* C11: on a Ready store with num_chains > 1 whose stored log-weights are not
\* all equal, diagnostics over a non-empty list of sites fails and returns no
\* mapping; the error is the non-uniform-weights ValueError of the first
\* listed site whenever that site is a site of every stored trace.
C11_NonUniformWeightsRejected ==
    (/\ last.op = "diagnostics"
     /\ Ready(last.store)
     /\ num_chains[last.store] > 1
     /\ last.sites.given
     /\ last.sites.list # <<>>
     /\ NonUniform(last.store)) =>
        /\ ~last.ok
        /\ last.diag = NoDiag
        /\ ~MissingSite(last.store, last.sites.list[1]) => last.err = "ValueError"

\* diagnostics over two sites has raised the non-uniform-weights error on a
\* two-chain store holding one sample per chain
C11_Witness ==
    /\ last.op = "diagnostics"
    /\ Ready(last.store)
    /\ num_chains[last.store] = 2
    /\ last.sites = SiteList(<<"z", "x">>)
    /\ NonUniform(last.store)
    /\ \A c \in Chains(last.store) : Len(idxs_by_chain[last.store][c]) = 1
    /\ last.err = "ValueError"

\* ------------------------------------------------------------------- C12
\* every chain of s holds the same number of positions
EqualChains(s) ==
    \A c, d \in Chains(s) : Len(idxs_by_chain[s][c]) = Len(idxs_by_chain[s][d])

\* the values of site at the positions of chain c, in the order of the chain
Row(s, site, c) ==
    [j \in 1 .. Len(idxs_by_chain[s][c]) |->
        exec_traces[s][idxs_by_chain[s][c][j] + 1][site].value]

C13_DrawAndDiagnosticsReadOnly ==
    [][last'.op \in {"draw", "diagnostics"} =>
          UNCHANGED <<exec_traces, log_weights, idxs_by_chain, categorical>>]_vars

\* a draw has returned a trace stripped of an observation node that the
\* stored trace it was copied from still has, the store being what its run
\* left
C13_Witness ==
    /\ last.op = "draw"
    /\ last.ok
    /\ Ready(last.store)
    /\ observation_nodes(exec_traces[last.store][last.pos + 1]) # {}
    /\ DOMAIN last.trace # DOMAIN exec_traces[last.store][last.pos + 1]
    /\ exec_traces[last.store][last.pos + 1] = Stored(last.store, last.pos + 1)[1]
    /\ categorical[last.store].logits = log_weights[last.store]

\* ------------------------------------------------------------------- C14
\* C14: the marginal built over a store for a single site name holds one
\* entry per stored sample, in stored order: entry i pairs the value of the
\* site in exec_traces[i] with log_weights[i], so a store of n samples gives
\* n entries and every position listed in idxs_by_chain indexes an entry.
C14_MarginalFollowsStore ==
    last.op = "marginal" /\ last.ok =>
        LET s == last.store
            site == last.sites.list[1]
        IN  /\ Len(last.marginal) = Len(exec_traces[s])
            /\ Len(last.marginal) = Len(log_weights[s])
            /\ \A i \in 1 .. Len(exec_traces[s]) :
                   last.marginal[i] = <<exec_traces[s][i][site].value, log_weights[s][i]>>
            /\ \A c \in Chains(s) : \A j \in DOMAIN idxs_by_chain[s][c] :
                   idxs_by_chain[s][c][j] + 1 \in DOMAIN last.marginal

\* the marginal of "z" has been built over a Ready two-chain store of two
\* samples with different values and different log-weights
C14_Witness ==
    /\ last.op = "marginal"
    /\ last.ok
    /\ last.sites = SiteList(<<"z">>)
    /\ Ready(last.store)
    /\ num_chains[last.store] = 2
    /\ Len(last.marginal) = 2
    /\ last.marginal[1][1] # last.marginal[2][1]
    /\ last.marginal[1][2] # last.marginal[2][2]

\* ------------------------------------------------------------------- C15
\* the places idxs_by_chain[s] has
AllPlaces(s) ==
    {ck \in Chains(s) \X (1 .. SumLens(idxs_by_chain[s], num_chains[s])) :
        ck[2] <= Len(idxs_by_chain[s][ck[1]])}

\* the lists idxs_by_chain[s] partition the positions of exec_traces[s]
Partitioned(s) ==
    /\ SumLens(idxs_by_chain[s], num_chains[s]) = Len(exec_traces[s])
    /\ \A p \in 0 .. Len(exec_traces[s]) - 1 :
           \E ck \in AllPlaces(s) : idxs_by_chain[s][ck[1]][ck[2]] = p

\* every thread's run call has returned
AllReturned == \A t \in Threads : threads[t].pc = "done"

\* C15: concurrent run calls on one store are not safe. When two run calls
\* are serialized, one returning before the other starts, the state after
\* both have returned has idxs_by_chain partitioning the positions of
\* exec_traces, every stored trace being one the second call was yielded;
\* when they interleave at the reset and the single appends, a state after
\* both have returned is reachable where idxs_by_chain does not partition
\* the positions (C15_Witness).
C15_SerializedRunsPartition ==
    AllReturned /\ ~overlapped =>
        /\ Partitioned("posterior")
        /\ Len(log_weights["posterior"]) = Len(exec_traces["posterior"])
        /\ categorical["posterior"].logits = log_weights["posterior"]
        /\ \E t \in Threads : \A i \in DOMAIN exec_traces["posterior"] :
               exec_traces["posterior"][i] = LatentOnly(t)

\* two interleaved run calls have both returned and left idxs_by_chain not
\* partitioning the positions of exec_traces
C15_Witness ==
    /\ AllReturned
    /\ overlapped
    /\ ~Partitioned("posterior")

\* ------------------------------------------------------------------- C16
\* C16: the generator of the TracePredictive instance runs its upstream
\* store if and only if that store has never been run: while the generator
\* waits for the upstream run it started, no earlier run of the upstream
\* store had returned (a run that stored nothing included), and when the
\* generator is at its loop of draws, a run of the upstream store has
\* returned.
C16_UpstreamRunIffNeverRun ==
    /\ gen.pc = "wait" => ~completed["posterior"]
    /\ gen.pc = "loop" => completed["posterior"]

\* ------------------------------------------------------------------- C17
\* the position the drawn index g decodes to
Decoded(s, g) ==
    idxs_by_chain[s][chain_of(g, num_chains[s])][within_of(g, num_chains[s]) + 1]

\* C17: on every Ready store holding at least one sample, in whatever order
\* the valid chain ids were yielded, every index g in [0, len(exec_traces))
\* decodes to an existing entry of idxs_by_chain, no draw fails on the
\* lookup, and g -> idxs_by_chain[g mod n][g div n] is a bijection on the
\* positions.
C17_DecodingTotalBijective ==
    /\ \A s \in Stores :
           Ready(s) /\ ValidChainIds(s) /\ ~Empty(s) =>
               /\ \A g \in 0 .. Len(exec_traces[s]) - 1 :
                      within_of(g, num_chains[s]) <
                          Len(idxs_by_chain[s][chain_of(g, num_chains[s])])
               /\ {Decoded(s, g) : g \in 0 .. Len(exec_traces[s]) - 1} =
                      0 .. Len(exec_traces[s]) - 1
    /\ last.op = "draw" /\ Ready(last.store) /\ ValidChainIds(last.store) /\ last.g >= 0 =>
           last.ok

\* ------------------------------------------------------------------- C18
\* C18: in every state a caller can observe between operations, a state left
\* by a run that failed partway included, log_weights and exec_traces have
\* the same length, idxs_by_chain partitions the positions of exec_traces,
\* and the resampling distribution is unset or built over exactly the
\* current log_weights.
C18_BookkeepingInvariant ==
    \A s \in Stores :
        Idle =>
            /\ Len(log_weights[s]) = Len(exec_traces[s])
            /\ Partitioned(s)
            /\ ~categorical[s].is_set \/ categorical[s].logits = log_weights[s]

====
